---- MODULE Spec2Model ----
(***************************************************************************)
(* A model of library/manageiq_provider.py: the ManageIQ class that adds,  *)
(* updates and deletes a provider through the ManageIQ REST API.           *)
(*                                                                         *)
(* Encoding of Python values:                                              *)
(*   None            the empty tuple <<>>                                  *)
(*   a nullable v    the one-element tuple <<v>> (Some(v))                 *)
(*   a dict          a function from its keys; a missing key is a key      *)
(*                   that is not in the DOMAIN (d.get(k) is Get(d, k))     *)
(*   a list          a sequence                                            *)
(* A formatted message is kept as the record of the values that are        *)
(* formatted into it.                                                      *)
(***************************************************************************)
EXTENDS Integers, Sequences, FiniteSets, TLC

VARIABLES
    \* the module's parameters (main) and the arguments built from them
    state, provider_name, provider_type, zone, provider_region, endpoints,
    \* the ManageIQ server: collections, the provider's record and the shapes
    \* of the authentication records it answers with
    providers, zones, remote, server_auths,
    \* the locals and fields of ManageIQ.add_or_update_provider
    pc, zone_id, provider_id, updates, old_validation_details, operation,
    authtypes_to_verify, changed,
    \* the locals of ManageIQ.verify_authenticaion_validation
    i, new_validation_details, details,
    \* what the invocation ends with: exit_json's arguments or fail_json's
    result,
    \* observation: the API calls issued, in order, and the time slept
    calls, slept,
    \* manageiq_custom_attributes: the attributes the server holds, the
    \* desired attributes, the attributes fetched, the result and the POSTs
    \* issued, in order
    server_cas, custom_attributes, existing_cas, ca_result, ca_calls

vars == <<state, provider_name, provider_type, zone, provider_region, endpoints,
          providers, zones, remote, server_auths,
          pc, zone_id, provider_id, updates, old_validation_details, operation,
          authtypes_to_verify, changed,
          i, new_validation_details, details, result, calls, slept,
          server_cas, custom_attributes, existing_cas, ca_result, ca_calls>>

attribute_vars == <<server_cas, custom_attributes, existing_cas, ca_result, ca_calls>>

provider_vars ==
    <<state, provider_name, provider_type, zone, provider_region, endpoints,
      providers, zones, remote, server_auths,
      pc, zone_id, provider_id, updates, old_validation_details, operation,
      authtypes_to_verify, changed,
      i, new_validation_details, details, result, calls, slept>>

inputs == <<state, provider_name, provider_type, zone, provider_region, endpoints>>

-----------------------------------------------------------------------------
(* Python values *)

None == <<>>
Some(v) == <<v>>
EmptyDict == [k \in {} |-> k]

\* d.get(k)
Get(d, k) == IF k \in DOMAIN d THEN d[k] ELSE None
\* d.get(k, default)
GetDefault(d, k, default) == IF k \in DOMAIN d THEN d[k] ELSE default
\* d[k] = v on a copy of d
SetKey(d, k, v) == [x \in DOMAIN d \cup {k} |-> IF x = k THEN v ELSE d[x]]
\* `x or None` for a nullable string
OrNone(x) == IF x = None \/ x = Some("") THEN None ELSE x
\* the truth value of an id: None and 0 are false
Truthy(x) == x # None /\ x # Some(0)

Range(s) == {s[n] : n \in DOMAIN s}

-----------------------------------------------------------------------------
(* Program constants *)

WAIT_TIME == 5

\* a loop that runs once more
ITERATIONS_plus_one == 10 + 1
ITERATIONS == 10
OPENSHIFT_DEFAULT_PORT == "8443"

PROVIDER_TYPES ==
    [x \in {"openshift-origin", "openshift-enterprise", "amazon"} |->
        CASE x = "openshift-origin" -> "ManageIQ::Providers::Openshift::ContainerManager"
          [] x = "openshift-enterprise" -> "ManageIQ::Providers::OpenshiftEnterprise::ContainerManager"
          [] x = "amazon" -> "ManageIQ::Providers::Amazon::CloudManager"]

-----------------------------------------------------------------------------
(* Endpoint dictionaries *)

\* int(port) on the port strings of the model
PortStrings == {"8443", "443"}
IntOf(port) == CASE port = "8443" -> 8443 [] port = "443" -> 443

generate_openshift_endpoint(role, authtype, hostname, port, token) ==
    [endpoint |-> [role |-> role, hostname |-> hostname, port |-> Some(IntOf(port))],
     authentication |-> [authtype |-> authtype, auth_key |-> token]]

generate_amazon_endpoint(role, authtype, userid, password) ==
    [endpoint |-> [role |-> role],
     authentication |-> [authtype |-> authtype, userid |-> userid, password |-> password]]

-----------------------------------------------------------------------------
(* ManageIQ.required_updates *)

host_port(endpoint) ==
    [hostname |-> Get(endpoint, "hostname"), port |-> Get(endpoint, "port")]

\* {key(e): value(e) for e in list}: a later entry with the same key wins
LastWith(list, role) ==
    CHOOSE n \in DOMAIN list :
        /\ list[n].role = role
        /\ \A m \in DOMAIN list : list[m].role = role => m <= n

by_role(list) ==
    [role \in {list[n].role : n \in DOMAIN list} |-> host_port(list[LastWith(list, role)])]

desired_by_role(eps) == by_role([n \in DOMAIN eps |-> eps[n].endpoint])
result_by_role(res) == by_role(res.endpoints)

\* the whole desired record, unchanged fields too
changed_fields_all(ep, cur) == ep

\* {k: v for k, v in ep.items() if k not in cur or v != cur[k]}
changed_fields(ep, cur) ==
    [k \in {k \in DOMAIN ep : k \notin DOMAIN cur \/ ep[k] # cur[k]} |-> ep[k]]

updated_roles(desired, current) ==
    [role \in {r \in DOMAIN desired : r \in DOMAIN current /\ desired[r] # current[r]} |->
        changed_fields(desired[role], current[role])]

\* every desired role, the ones the provider has too
added_roles_all(desired, current) == [role \in DOMAIN desired |-> desired[role]]

added_roles(desired, current) ==
    [role \in {r \in DOMAIN desired : r \notin DOMAIN current} |-> desired[role]]

removed_roles(desired, current) ==
    [role \in {r \in DOMAIN current : r \notin DOMAIN desired} |-> current[role]]

\* the remote region as it is, an empty string not read as None
existing_provider_region_raw(res) == Get(res, "provider_region")

existing_provider_region(res) == OrNone(Get(res, "provider_region"))

no_update_required(res, eps, zid, region) ==
    /\ result_by_role(res) = desired_by_role(eps)
    /\ res.zone_id = zid
    /\ existing_provider_region(res) = region

required_updates(res, eps, zid, region) ==
    IF no_update_required(res, eps, zid, region)
    THEN EmptyDict
    ELSE LET desired == desired_by_role(eps)
             current == result_by_role(res)
             upd0 == updated_roles(desired, current)
             upd1 == IF res.zone_id # zid THEN SetKey(upd0, "zone_id", zid) ELSE upd0
             upd2 == IF existing_provider_region(res) # region
                     THEN SetKey(upd1, "provider_region", region) ELSE upd1
         IN [Updated |-> upd2,
             Added |-> added_roles(desired, current),
             Removed |-> removed_roles(desired, current)]

-----------------------------------------------------------------------------
(* Entity lookup *)

\* the last member of the name instead of the first
find_by_name_last(collection, name) ==
    IF \E n \in DOMAIN collection : collection[n].name = name
    THEN Some(collection[CHOOSE n \in DOMAIN collection :
                            /\ collection[n].name = name
                            /\ \A m \in DOMAIN collection :
                                   collection[m].name = name => m <= n].id)
    ELSE None

\* next((x.id for x in collection if x.name == name), None)
find_by_name(collection, name) ==
    IF \E n \in DOMAIN collection : collection[n].name = name
    THEN Some(collection[CHOOSE n \in DOMAIN collection :
                            /\ collection[n].name = name
                            /\ \A m \in DOMAIN collection :
                                   collection[m].name = name => n <= m].id)
    ELSE None

find_zone_by_name(zone_name) == find_by_name(zones, zone_name)
find_provider_by_name(name) == find_by_name(providers, name)

-----------------------------------------------------------------------------
(* The ManageIQ server, as the module sees it through the API client *)

\* GET providers/<id>/?attributes=authentications: the authentication
\* records the server may answer with for authtype t.  A key that is null
\* or absent in the JSON reads as None through dict.get.
ValidationTimes ==
    {EmptyDict,
     [last_valid_on |-> Some("t1")],
     [last_valid_on |-> Some("t2")],
     [last_valid_on |-> Some("t1"), last_invalid_on |-> Some("t2")]}

ValidationStatus ==
    {EmptyDict,
     [status |-> None],
     [status |-> Some("Valid")],
     [status |-> Some("Invalid"), status_details |-> Some("Login failed")]}

AllAuthShapes == {times @@ st : times \in ValidationTimes, st \in ValidationStatus}

\* a server whose validation is over when the module asks: valid or invalid
SettledAuthShapes ==
    {[last_valid_on |-> Some("t2"), status |-> Some("Valid")],
     [last_valid_on |-> Some("t1"), last_invalid_on |-> Some("t2"),
      status |-> Some("Invalid"), status_details |-> Some("Login failed")]}

AuthRecords(t) == {[authtype |-> t] @@ shape : shape \in server_auths}

\* {auth['authtype']: auth for auth in auths}, for the authtypes in ts; the
\* server may hold no record for some of them
AuthResponses(ts) ==
    UNION {{r \in [present -> UNION {AuthRecords(t) : t \in present}] :
                \A t \in present : r[t].authtype = t} : present \in SUBSET ts}

\* the records a provider may hold before the write
OldAuthRecords(t) ==
    {[authtype |-> t, last_valid_on |-> Some("t1"), status |-> Some("Valid")]}

OldAuthResponses(ts) ==
    UNION {{r \in [present -> UNION {OldAuthRecords(t) : t \in present}] :
                \A t \in present : r[t].authtype = t} : present \in SUBSET ts}

\* the endpoint the server keeps for a connection configuration
stored_endpoint(e) ==
    [role |-> e.endpoint.role,
     hostname |-> Get(e.endpoint, "hostname"),
     port |-> Get(e.endpoint, "port")]

\* the provider's record after a write that carries eps, zid and region
written_provider(eps, zid, region) ==
    [endpoints |-> [n \in DOMAIN eps |-> stored_endpoint(eps[n])],
     zone_id |-> zid,
     provider_region |-> region]

\* the id the server gives a new provider: one it has not given yet
NextId ==
    1 + (CHOOSE k \in {0} \cup {providers[n].id : n \in DOMAIN providers} :
            \A n \in DOMAIN providers : providers[n].id <= k)

\* POST providers/<id> action=delete: the delete is queued as a task, or it
\* is refused, or the answer is not the action result the module reads
DeleteAnswers ==
    {[success |-> TRUE, task_id |-> Some(7), message |-> "queued for deletion"],
     [success |-> FALSE, message |-> "refused"],
     [success |-> TRUE, message |-> "queued for deletion"],
     [error |-> "not found"]}

-----------------------------------------------------------------------------
(* The calls the module issues *)

GetCall(what, id) == [method |-> "GET", what |-> what, id |-> id, payload |-> None]

\* an edit that sends the endpoints and the zone, not the region
EditCall_without_region(id, eps, zid, region) ==
    [method |-> "POST", what |-> "edit", id |-> id,
     payload |-> [zone |-> [id |-> zid], connection_configurations |-> eps,
                  provider_region |-> None]]

EditCall(id, eps, zid, region) ==
    [method |-> "POST", what |-> "edit", id |-> id,
     payload |-> [zone |-> [id |-> zid], connection_configurations |-> eps,
                  provider_region |-> region]]

CreateCall(name, type, eps, zid, region) ==
    [method |-> "POST", what |-> "create", id |-> None,
     payload |-> [name |-> name, type |-> PROVIDER_TYPES[type], zone |-> [id |-> zid],
                  connection_configurations |-> eps, provider_region |-> region]]

DeleteCall(id) == [method |-> "POST", what |-> "delete", id |-> id, payload |-> None]

Posts == {n \in DOMAIN calls : calls[n].method = "POST"}
PollFetches == {n \in DOMAIN calls : calls[n].what = "poll"}

-----------------------------------------------------------------------------
(* How an invocation ends *)

\* the error result that also reports the changed flag
FailJson_with_changed(msg) == [kind |-> "fail_json", msg |-> msg, changed |-> changed]

\* module.fail_json(msg=...)
FailJson(msg) == [kind |-> "fail_json", msg |-> msg]
\* an exception nothing catches
Uncaught(error) == [kind |-> "exception", error |-> error]

Terminated == pc \in {"done", "fatal", "crashed"}

-----------------------------------------------------------------------------
(* ManageIQ.verify_authenticaion_validation: one pass of the loop body *)

\* validated only when both timestamps have changed
validated_both(old, new) ==
    /\ Get(old, "last_valid_on") # Get(new, "last_valid_on")
    /\ Get(old, "last_invalid_on") # Get(new, "last_invalid_on")

validated(old, new) ==
    <<Get(old, "last_valid_on"), Get(old, "last_invalid_on")>> #
    <<Get(new, "last_valid_on"), Get(new, "last_invalid_on")>>

\* done as soon as any authtype is validated
validations_done_any(old_details, new_details, ts) ==
    \E t \in Range(ts) :
        validated(GetDefault(old_details, t, EmptyDict), GetDefault(new_details, t, EmptyDict))

\* never done when there is nothing to validate
validations_done_nonempty(old_details, new_details, ts) ==
    /\ ts # <<>>
    /\ \A t \in Range(ts) :
          validated(GetDefault(old_details, t, EmptyDict), GetDefault(new_details, t, EmptyDict))

validations_done(old_details, new_details, ts) ==
    \A t \in Range(ts) :
        validated(GetDefault(old_details, t, EmptyDict), GetDefault(new_details, t, EmptyDict))

\* new_validation_details[t] for every t under test: a KeyError otherwise
details_computable(new_details, ts) == \A t \in Range(ts) : t \in DOMAIN new_details

validation_details(new_details, ts) ==
    [t \in Range(ts) |->
        <<GetDefault(new_details[t], "status", Some("Validation in progress")),
          GetDefault(new_details[t], "status_details", Some(""))>>]

\* any(new_validation_details[t]['status'] not in ('Valid', None) for t in ts),
\* evaluated from the n-th authtype on: "True", "False" or "KeyError"
RECURSIVE any_failed(_, _, _)
any_failed(new_details, ts, n) ==
    IF n > Len(ts) THEN "False"
    ELSE IF "status" \notin DOMAIN new_details[ts[n]] THEN "KeyError"
    ELSE IF new_details[ts[n]].status \notin {Some("Valid"), None} THEN "True"
    ELSE any_failed(new_details, ts, n + 1)

\* all(new_validation_details[t]['status'] == 'Valid' for t in ts)
RECURSIVE all_valid(_, _, _)
all_valid(new_details, ts, n) ==
    IF n > Len(ts) THEN "True"
    ELSE IF "status" \notin DOMAIN new_details[ts[n]] THEN "KeyError"
    ELSE IF new_details[ts[n]].status # Some("Valid") THEN "False"
    ELSE all_valid(new_details, ts, n + 1)

\* What one pass does with the fetched details: it raises ("KeyError"),
\* returns failure ("failed"), returns success ("valid") or sleeps ("sleep")
poll_outcome(old_details, new_details, ts) ==
    IF ~details_computable(new_details, ts) THEN "KeyError"
    ELSE IF ~validations_done(old_details, new_details, ts) THEN "sleep"
    ELSE LET failed == any_failed(new_details, ts, 1) IN
         IF failed = "KeyError" THEN "KeyError"
         ELSE IF failed = "True" THEN "failed"
         ELSE LET valid == all_valid(new_details, ts, 1) IN
              IF valid = "KeyError" THEN "KeyError"
              ELSE IF valid = "True" THEN "valid"
              ELSE "sleep"

-----------------------------------------------------------------------------
(* ManageIQ.add_or_update_provider *)

\* [e['authentication']['authtype'] for e in endpoints
\*      if e['endpoint']['role'] in roles_with_changes]
RECURSIVE authtypes_of(_, _)
authtypes_of(eps, roles) ==
    IF eps = <<>> THEN <<>>
    ELSE (IF Head(eps).endpoint.role \in roles
          THEN <<Head(eps).authentication.authtype>> ELSE <<>>)
         \o authtypes_of(Tail(eps), roles)

\* the added roles alone
roles_with_changes_added(upd) == DOMAIN upd.Added

roles_with_changes(upd) == DOMAIN upd.Added \cup DOMAIN upd.Updated

all_roles(eps) == {eps[n].endpoint.role : n \in DOMAIN eps}

validation_message(success, det) ==
    [text |-> IF success THEN "Successful" ELSE "Failed to validate provider",
     operation |-> operation, provider |-> provider_name, validation |-> det]

\* a failed validation reported through fail_json
final_result_fatal(success, det) ==
    IF success
    THEN [kind |-> "exit_json", provider_id |-> provider_id, changed |-> changed,
          msg |-> validation_message(success, det), updates |-> updates]
    ELSE FailJson(validation_message(success, det))

\* the dict add_or_update_provider returns after the poller's verdict
final_result(success, det) ==
    [kind |-> "exit_json", provider_id |-> provider_id, changed |-> changed,
     msg |-> validation_message(success, det), updates |-> updates]

unchanged_result ==
    [kind |-> "exit_json", changed |-> changed,
     msg |-> [text |-> "already exists", provider |-> provider_name]]

\* zone_id and provider_id: the two lookups that open the method
Locate ==
    /\ state = "present"
    /\ pc = "start"
    /\ zone_id' = find_zone_by_name(IF zone = None \/ zone = Some("")
                                    THEN "default" ELSE zone[1])
    /\ provider_id' = find_provider_by_name(provider_name)
    /\ pc' = IF Truthy(provider_id') THEN "compare" ELSE "create"
    /\ UNCHANGED <<attribute_vars, inputs, server_auths, providers, zones, remote, updates, old_validation_details,
                   operation, authtypes_to_verify, changed, i, new_validation_details,
                   details, result, calls, slept>>

\* required_updates and the branch on its result
Compare ==
    /\ pc = "compare"
    /\ calls' = Append(calls, GetCall("endpoints", provider_id))
    /\ \/ /\ pc' = "fatal"
          /\ result' = FailJson("Failed to get provider data")
          /\ UNCHANGED updates
       \/ /\ updates' = required_updates(remote, endpoints, zone_id, provider_region)
          /\ IF updates' = EmptyDict
             THEN pc' = "done" /\ result' = unchanged_result
             ELSE pc' = "snapshot" /\ UNCHANGED result
    /\ UNCHANGED <<attribute_vars, inputs, server_auths, providers, zones, remote, zone_id, provider_id,
                   old_validation_details, operation, authtypes_to_verify, changed, i,
                   new_validation_details, details, slept>>

\* old_validation_details = self.auths_validation_details(provider_id)
Snapshot ==
    /\ pc = "snapshot"
    /\ calls' = Append(calls, GetCall("snapshot", provider_id))
    /\ \/ /\ pc' = "fatal"
          /\ result' = FailJson("Failed to get provider data")
          /\ UNCHANGED <<old_validation_details, operation>>
       \/ /\ \E old \in OldAuthResponses({endpoints[n].authentication.authtype :
                                              n \in DOMAIN endpoints}) :
                old_validation_details' = old
          /\ operation' = "update"
          /\ pc' = "edit"
          /\ UNCHANGED result
    /\ UNCHANGED <<attribute_vars, inputs, server_auths, providers, zones, remote, zone_id, provider_id, updates,
                   authtypes_to_verify, changed, i, new_validation_details, details, slept>>

\* update_provider, then the authtypes of the roles with changes
Edit ==
    /\ pc = "edit"
    /\ calls' = Append(calls, EditCall(provider_id, endpoints, zone_id, provider_region))
    /\ \/ /\ pc' = "fatal"
          /\ result' = FailJson("Failed to update provider")
          /\ UNCHANGED <<remote, changed, authtypes_to_verify>>
       \/ /\ remote' = written_provider(endpoints, zone_id, provider_region)
          /\ changed' = TRUE
          /\ authtypes_to_verify' = authtypes_of(endpoints, roles_with_changes(updates))
          /\ pc' = "poll"
          /\ UNCHANGED result
    /\ UNCHANGED <<attribute_vars, inputs, server_auths, providers, zones, zone_id, provider_id, updates,
                   old_validation_details, operation, i, new_validation_details,
                   details, slept>>

\* The locals of the addition branch, add_new_provider, then the authtypes of
\* every endpoint; the locals are assigned before the write is tried
Create ==
    /\ pc = "create"
    /\ calls' = Append(calls, CreateCall(provider_name, provider_type, endpoints,
                                         zone_id, provider_region))
    /\ updates' = None
    /\ old_validation_details' = EmptyDict
    /\ operation' = "addition"
    /\ \/ /\ pc' = "fatal"
          /\ result' = FailJson("Failed to add provider")
          /\ UNCHANGED <<remote, providers, provider_id, changed, authtypes_to_verify>>
       \/ /\ remote' = written_provider(endpoints, zone_id, provider_region)
          /\ providers' = Append(providers, [id |-> NextId, name |-> provider_name])
          /\ provider_id' = Some(NextId)
          /\ changed' = TRUE
          /\ authtypes_to_verify' = authtypes_of(endpoints, all_roles(endpoints))
          /\ pc' = "poll"
          /\ UNCHANGED result
    /\ UNCHANGED <<attribute_vars, inputs, server_auths, zones, zone_id, i, new_validation_details, details, slept>>

\* One pass of the poller's loop: the fetch, the checks and the sleep; the
\* pass that ends the poller also builds what add_or_update_provider returns.
\* i is the loop's index: the range gives it the values 0 .. ITERATIONS - 1
\* and the last pass leaves it at ITERATIONS - 1
Poll ==
    /\ pc = "poll"
    /\ i < ITERATIONS
    /\ calls' = Append(calls, GetCall("poll", provider_id))
    /\ \/ /\ pc' = "fatal"
          /\ result' = FailJson("Failed to get provider data")
          /\ UNCHANGED <<i, new_validation_details, details, slept>>
       \/ \E new \in AuthResponses(Range(authtypes_to_verify)) :
            LET outcome == poll_outcome(old_validation_details, new, authtypes_to_verify)
                det == validation_details(new, authtypes_to_verify)
            IN /\ new_validation_details' = new
               /\ details' = IF details_computable(new, authtypes_to_verify)
                             THEN det ELSE details
               /\ CASE outcome = "KeyError" ->
                         /\ pc' = "crashed"
                         /\ result' = Uncaught("KeyError")
                         /\ UNCHANGED <<i, slept>>
                    [] outcome = "failed" ->
                         /\ pc' = "done"
                         /\ result' = final_result(FALSE, det)
                         /\ UNCHANGED <<i, slept>>
                    [] outcome = "valid" ->
                         /\ pc' = "done"
                         /\ result' = final_result(TRUE, "All Valid")
                         /\ UNCHANGED <<i, slept>>
                    [] outcome = "sleep" ->
                         /\ slept' = slept + WAIT_TIME
                         /\ IF i + 1 = ITERATIONS
                            THEN /\ pc' = "done"
                                 /\ result' = final_result(FALSE, det)
                                 /\ UNCHANGED i
                            ELSE /\ pc' = "poll"
                                 /\ i' = i + 1
                                 /\ UNCHANGED result
    /\ UNCHANGED <<attribute_vars, inputs, server_auths, providers, zones, remote, zone_id, provider_id, updates,
                   old_validation_details, operation, authtypes_to_verify, changed>>

-----------------------------------------------------------------------------
(* ManageIQ.delete_provider *)

\* a lookup that found nothing reported as a change
absent_result_changed ==
    [kind |-> "exit_json", task_id |-> None, changed |-> TRUE,
     msg |-> [text |-> "doesn't exist", provider |-> provider_name]]

\* the provider is not in the collection
absent_result ==
    [kind |-> "exit_json", task_id |-> None, changed |-> changed,
     msg |-> [text |-> "doesn't exist", provider |-> provider_name]]

\* a refused delete reported as a change
delete_failed_result_changed(answer) ==
    [kind |-> "exit_json", task_id |-> None, changed |-> TRUE, api_error |-> answer,
     msg |-> [text |-> "Failed to delete", provider |-> provider_name]]

\* the server answered success = false
delete_failed_result(answer) ==
    [kind |-> "exit_json", task_id |-> None, changed |-> changed, api_error |-> answer,
     msg |-> [text |-> "Failed to delete", provider |-> provider_name]]

\* the server answered success = true
deleted_result(answer) ==
    [kind |-> "exit_json", task_id |-> answer.task_id, changed |-> TRUE,
     msg |-> [text |-> answer.message]]

\* the lookup, the delete write and the result; a missing key in the answer
\* is a KeyError inside the try block.  A server that answers success = true
\* has taken the delete: the provider's record is gone
Delete ==
    /\ state = "absent"
    /\ pc = "start"
    /\ provider_id' = find_provider_by_name(provider_name)
    /\ IF Truthy(provider_id')
       THEN /\ calls' = Append(calls, DeleteCall(provider_id'))
            /\ \/ /\ pc' = "fatal"
                  /\ result' = FailJson("Failed to delete provider")
                  /\ UNCHANGED <<changed, remote>>
               \/ \E answer \in DeleteAnswers :
                     /\ remote' = IF "success" \in DOMAIN answer /\ answer.success
                                  THEN None ELSE remote
                     /\ IF "success" \notin DOMAIN answer
                        THEN /\ pc' = "fatal"
                             /\ result' = FailJson("Failed to delete provider")
                             /\ UNCHANGED changed
                        ELSE IF answer.success
                        THEN IF "task_id" \in DOMAIN answer
                             THEN /\ pc' = "done"
                                  /\ changed' = TRUE
                                  /\ result' = deleted_result(answer)
                             ELSE /\ pc' = "fatal"
                                  /\ changed' = TRUE
                                  /\ result' = FailJson("Failed to delete provider")
                        ELSE /\ pc' = "done"
                             /\ result' = delete_failed_result(answer)
                             /\ UNCHANGED changed
       ELSE /\ pc' = "done"
            /\ result' = absent_result
            /\ UNCHANGED <<calls, changed, remote>>
    /\ UNCHANGED <<attribute_vars, inputs, server_auths, providers, zones, zone_id, updates,
                   old_validation_details, operation, authtypes_to_verify, i,
                   new_validation_details, details, slept>>

-----------------------------------------------------------------------------
(* manageiq_custom_attributes: the same diff, keyed on (name, section) *)

\* The custom attributes of the model: two names, two sections, three values
AttributeNames == {"ca1", "ca2"}
AttributeSections == {"metadata", "section"}
AttributeValues == {"value 1", "value 2", "new value"}

Attributes ==
    [name : AttributeNames, section : AttributeSections, value : AttributeValues]

\* the lists of at most two attributes with different keys
AttributeLists ==
    {<<>>} \cup {<<a>> : a \in Attributes}
    \cup {l \in {<<a, b>> : a \in Attributes, b \in Attributes} :
              l[1].name # l[2].name \/ l[1].section # l[2].section}

\* a key of the name alone
ca_key_name_only(ca) == <<ca.name>>

\* the composite key of a custom attribute
ca_key(ca) == <<ca.name, ca.section>>

ca_keys(cas) == {ca_key(cas[n]) : n \in DOMAIN cas}

\* the attribute of the list that has the key of ca
ca_with_key(cas, ca) == cas[CHOOSE n \in DOMAIN cas : ca_key(cas[n]) = ca_key(ca)]

\* the desired attributes whose key no existing attribute has, in order:
\* the attributes to post as additions
RECURSIVE added_cas(_, _)
added_cas(desired, existing) ==
    IF desired = <<>> THEN <<>>
    ELSE (IF ca_key(Head(desired)) \notin ca_keys(existing)
          THEN <<Head(desired)>> ELSE <<>>)
         \o added_cas(Tail(desired), existing)

\* the desired attributes whose key exists with another value, in order:
\* the attributes to post as updates
RECURSIVE updated_cas(_, _)
updated_cas(desired, existing) ==
    IF desired = <<>> THEN <<>>
    ELSE (IF /\ ca_key(Head(desired)) \in ca_keys(existing)
             /\ ca_with_key(existing, Head(desired)).value # Head(desired).value
          THEN <<Head(desired)>> ELSE <<>>)
         \o updated_cas(Tail(desired), existing)

\* the server's attributes once the added and updated ones are posted
posted_cas(existing, added, updated) ==
    [n \in DOMAIN existing |->
        IF ca_key(existing[n]) \in ca_keys(updated)
        THEN ca_with_key(updated, existing[n]) ELSE existing[n]] \o added

\* the POST of a list of attributes under an action; an empty list is not
\* posted
ca_post(action, cas) ==
    IF cas = <<>> THEN <<>> ELSE <<[action |-> action, resources |-> cas]>>

\* what the server may answer to the POST of a list of attributes: one
\* record for each attribute posted, the server's own record of it
PostAnswers(cas, records) == {answer \in records : Len(answer) = Len(cas)}

\* add_or_update_custom_attributes: fetch, classify, post, report; Added and
\* Updated of the result are the 'results' of the server's answers to the
\* two POSTs
add_or_update_custom_attributes ==
    /\ ca_result = None
    /\ custom_attributes # <<>>
    /\ existing_cas' = server_cas
    /\ LET added == added_cas(custom_attributes, server_cas)
           updated == updated_cas(custom_attributes, server_cas)
       IN /\ server_cas' = posted_cas(server_cas, added, updated)
          /\ ca_calls' = ca_post("add", added) \o ca_post("edit", updated)
          /\ \E added_answer \in PostAnswers(added, AttributeLists),
                updated_answer \in PostAnswers(updated, AttributeLists) :
                ca_result' = [changed |-> added # <<>> \/ updated # <<>>,
                              updates |-> [Added |-> added_answer,
                                           Updated |-> updated_answer]]
    /\ UNCHANGED <<provider_vars, custom_attributes>>

-----------------------------------------------------------------------------
(* main: the endpoints built from the module's parameters *)

main_endpoints(ptype, hostname, port, token, metrics, h_hostname, h_port, access_key_id, secret_access_key) ==
    IF ptype \in {"openshift-enterprise", "openshift-origin"}
    THEN <<generate_openshift_endpoint("default", "bearer", hostname, port, token)>>
         \o (IF metrics
             THEN <<generate_openshift_endpoint("hawkular", "hawkular", h_hostname,
                                                h_port, token)>>
             ELSE <<>>)
    ELSE <<generate_amazon_endpoint("default", "default", access_key_id,
                                    secret_access_key)>>

-----------------------------------------------------------------------------------------------------------------------------------------------------
(* The invocations and the servers of the model *)

DesiredDefaultEndpoints ==
    {generate_openshift_endpoint("default", "bearer", Some("h1"), "8443", Some("token")),
     generate_openshift_endpoint("default", "bearer", Some("h2"), "8443", Some("token")),
     generate_openshift_endpoint("default", "bearer", Some("h1"), "443", Some("token")),
     generate_amazon_endpoint("default", "default", Some("key"), Some("secret"))}

DesiredHawkularEndpoints ==
    {generate_openshift_endpoint("hawkular", "hawkular", Some("h1"), "443", Some("token")),
     generate_openshift_endpoint("hawkular", "hawkular", Some("h2"), "443", Some("token"))}

\* the lists main builds, and the lists without a default endpoint
DesiredEndpointLists ==
    {<<>>}
    \cup {<<d>> : d \in DesiredDefaultEndpoints}
    \cup {<<h>> : h \in DesiredHawkularEndpoints}
    \cup {<<d, h>> : d \in DesiredDefaultEndpoints, h \in DesiredHawkularEndpoints}

\* the provider types main passes on with a list of endpoints: the two
\* openshift types build the same list, and with state = absent no list is
\* built and the type is any of the three choices
ProviderTypeChoices == {"openshift-origin", "openshift-enterprise", "amazon"}

TypesOf(st, eps) ==
    IF st = "absent" THEN ProviderTypeChoices
    ELSE IF \E n \in DOMAIN eps : eps[n].authentication.authtype = "default"
         THEN {"amazon"}
         ELSE {"openshift-origin", "openshift-enterprise"}

DesiredZones == {None, Some("z2"), Some("z9")}
DesiredRegions == {None, Some(""), Some("us-east-1")}

\* the provider records a server may hold
RemoteDefaultEndpoints ==
    {[role |-> "default", hostname |-> Some("h1"), port |-> Some(8443)],
     [role |-> "default", hostname |-> Some("h2"), port |-> Some(8443)],
     [role |-> "default", hostname |-> Some("h1"), port |-> Some(443)],
     [role |-> "default"]}

RemoteHawkularEndpoints ==
    {[role |-> "hawkular", hostname |-> Some("h1"), port |-> Some(443)],
     [role |-> "hawkular", hostname |-> Some("h2"), port |-> Some(443)]}

\* a role the module never asks for
RemoteOtherEndpoint == [role |-> "prometheus_alerts", hostname |-> Some("h1"), port |-> Some(9093)]

RemoteKnownEndpointLists ==
    {<<>>}
    \cup {<<d>> : d \in RemoteDefaultEndpoints}
    \cup {<<h>> : h \in RemoteHawkularEndpoints}
    \cup {<<d, h>> : d \in RemoteDefaultEndpoints, h \in RemoteHawkularEndpoints}

RemoteEndpointLists ==
    RemoteKnownEndpointLists \cup {Append(eps, RemoteOtherEndpoint) : eps \in RemoteKnownEndpointLists}

RemoteRegions == {EmptyDict, [provider_region |-> Some("")],
                  [provider_region |-> Some("us-east-1")]}

RemoteProviders ==
    {[endpoints |-> eps, zone_id |-> Some(1)] @@ region :
        eps \in RemoteEndpointLists, region \in RemoteRegions}

ZoneCollection == <<[id |-> 1, name |-> "default"], [id |-> 2, name |-> "z2"]>>

\* the locals before add_or_update_provider runs
Fresh ==
    /\ pc = "start"
    /\ zone_id = None
    /\ provider_id = None
    /\ updates = None
    /\ old_validation_details = EmptyDict
    /\ operation = ""
    /\ authtypes_to_verify = <<>>
    /\ changed = FALSE
    /\ i = 0
    /\ new_validation_details = EmptyDict
    /\ details = EmptyDict
    /\ result = None
    /\ calls = <<>>
    /\ slept = 0

\* no invocation of manageiq_custom_attributes
NoAttributes ==
    /\ server_cas = <<>>
    /\ custom_attributes = <<>>
    /\ existing_cas = <<>>
    /\ ca_result = None
    /\ ca_calls = <<>>

\* Every invocation of the model, state = present with the endpoints main
\* builds or state = absent, against a server whose validation has settled
\* when the module first asks
Init ==
    /\ provider_name = "p1"
    /\ \/ /\ state = "present"
          /\ endpoints \in DesiredEndpointLists
          /\ zone \in DesiredZones
          /\ provider_region \in DesiredRegions
       \/ /\ state = "absent"
          /\ endpoints = <<>>
          /\ zone = None
          /\ provider_region = None
    /\ provider_type \in TypesOf(state, endpoints)
    /\ zones = ZoneCollection
    /\ server_auths = SettledAuthShapes
    /\ \/ /\ providers = <<[id |-> 1, name |-> "p0"]>>
          /\ remote = None
       \/ /\ providers = <<[id |-> 1, name |-> "p0"], [id |-> 2, name |-> "p1"]>>
          /\ remote \in RemoteProviders
    /\ Fresh
    /\ NoAttributes

Next == Locate \/ Compare \/ Snapshot \/ Edit \/ Create \/ Poll \/ Delete

Spec == Init /\ [][Next]_vars

\* A few invocations, against a server that answers with every record shape
InitPoll ==
    /\ provider_name = "p1"
    /\ \/ /\ state = "present"
          /\ endpoints \in
                {main_endpoints("openshift-origin", Some("h1"), OPENSHIFT_DEFAULT_PORT,
                                Some("token"), metrics, Some("h1"), "443", None, None) :
                    metrics \in BOOLEAN}
       \/ /\ state = "absent"
          /\ endpoints = <<>>
    /\ provider_type = "openshift-origin"
    /\ zone = None
    /\ provider_region = None
    /\ zones = ZoneCollection
    /\ server_auths = AllAuthShapes
    /\ \/ /\ providers = <<[id |-> 1, name |-> "p0"]>>
          /\ remote = None
       \/ /\ providers = <<[id |-> 1, name |-> "p0"], [id |-> 2, name |-> "p1"]>>
          /\ remote = [endpoints |-> <<[role |-> "default", hostname |-> Some("h2"),
                                        port |-> Some(8443)]>>,
                       zone_id |-> Some(1)]
    /\ Fresh
    /\ NoAttributes

SpecPoll == InitPoll /\ [][Next]_vars

\* The collections of the model: at most MaxMembers members with different
\* ids; a name may be there twice
MaxMembers == 2

MemberIds == {1, 2, 3}

Members(names) == [id : MemberIds, name : names]

Collections(names, len) ==
    UNION {{c \in [1..k -> Members(names)] :
               \A m, n \in 1..k : m # n => c[m].id # c[n].id} : k \in 0..len}

\* A few invocations with state = present and state = absent, against
\* every provider and zone collection of the model
InitLookup ==
    /\ provider_name = "p1"
    /\ state \in {"present", "absent"}
    /\ provider_type \in {"openshift-origin", "openshift-enterprise"}
    /\ endpoints = main_endpoints(provider_type, Some("h1"), OPENSHIFT_DEFAULT_PORT,
                                  Some("token"), FALSE, None, "443", None, None)
    /\ zone \in DesiredZones
    /\ provider_region = None
    /\ providers \in Collections({"p0", "p1"}, MaxMembers)
    /\ zones \in Collections({"default", "z2"}, MaxMembers)
    /\ remote = [endpoints |-> <<[role |-> "default", hostname |-> Some("h2"),
                                  port |-> Some(8443)]>>,
                 zone_id |-> Some(1)]
    /\ server_auths = SettledAuthShapes
    /\ Fresh
    /\ NoAttributes

SpecLookup == InitLookup /\ [][Next]_vars

\* Every invocation of add_or_update_custom_attributes of the model; the
\* provider module is not invoked
InitAttributes ==
    /\ server_cas \in AttributeLists
    /\ custom_attributes \in AttributeLists \ {<<>>}
    /\ existing_cas = <<>>
    /\ ca_result = None
    /\ ca_calls = <<>>
    /\ state = "present"
    /\ provider_name = "p1"
    /\ provider_type = "openshift-origin"
    /\ zone = None
    /\ provider_region = None
    /\ endpoints = <<>>
    /\ providers = <<[id |-> 1, name |-> "p0"], [id |-> 2, name |-> "p1"]>>
    /\ zones = ZoneCollection
    /\ remote = None
    /\ server_auths = {}
    /\ Fresh

NextAttributes == add_or_update_custom_attributes

SpecAttributes == InitAttributes /\ [][NextAttributes]_vars

-----------------------------------------------------------------------------
(* Properties of required_updates *)

\* required_updates has just returned: the provider's record is still the
\* one it fetched
AfterCompare ==
    /\ Len(calls) = 1
    /\ calls[1].what = "endpoints"
    /\ pc \in {"done", "snapshot"}

Desired == desired_by_role(endpoints)
Current == result_by_role(remote)

Part(name) == IF updates = EmptyDict THEN EmptyDict ELSE updates[name]

PartsWith(role) == {name \in {"Added", "Updated", "Removed"} : role \in DOMAIN Part(name)}

Unchanged(role) ==
    /\ role \in DOMAIN Desired
    /\ role \in DOMAIN Current
    /\ Desired[role].hostname = Current[role].hostname
    /\ Desired[role].port = Current[role].port

\* C1 (as claimed): when the provider exists and the desired role ->
\* (hostname, port) mapping, the zone id and the region all equal the remote
\* ones, required_updates returns the empty diff and the invocation ends with
\* changed = false, the message "Provider <name> already exists" and no POST.
C1_NoOpConvergence ==
    (/\ AfterCompare
     /\ Desired = Current
     /\ remote.zone_id = zone_id
     /\ Get(remote, "provider_region") = provider_region)
    => /\ updates = EmptyDict
       /\ pc = "done"
       /\ result.kind = "exit_json"
       /\ result.changed = FALSE
       /\ result.msg = [text |-> "already exists", provider |-> provider_name]
       /\ Posts = {}

\* C1, for every desired region but the empty string: the no-op holds
C1_NoOpConvergenceNonEmptyRegion ==
    provider_region # Some("") => C1_NoOpConvergence

\* C2: in the result of required_updates every role of either side is in
\* exactly one of Added, Updated and Removed, or in none of them when its
\* hostname and port are the same on both sides.
C2_DiffPartition ==
    AfterCompare =>
        \A role \in DOMAIN Desired \cup DOMAIN Current :
            Cardinality(PartsWith(role)) = IF Unchanged(role) THEN 0 ELSE 1

\* one role added, one updated and one removed by the same diff
C2_Witness ==
    /\ AfterCompare
    /\ updates # EmptyDict
    /\ "hawkular" \in DOMAIN updates.Added
    /\ "default" \in DOMAIN updates.Updated
    /\ "prometheus_alerts" \in DOMAIN updates.Removed

\* C3: a non-empty diff has in Added exactly the desired roles absent
\* remotely with their desired hostname and port, in Removed exactly the
\* remote roles absent from the desired set with their remote hostname and
\* port, and in Updated, for exactly the roles of both sides that differ,
\* exactly the desired fields whose value differs: at least one.
C3_DiffContent ==
    (AfterCompare /\ updates # EmptyDict) =>
        /\ DOMAIN updates.Added = DOMAIN Desired \ DOMAIN Current
        /\ \A role \in DOMAIN updates.Added : updates.Added[role] = Desired[role]
        /\ DOMAIN updates.Removed = DOMAIN Current \ DOMAIN Desired
        /\ \A role \in DOMAIN updates.Removed : updates.Removed[role] = Current[role]
        /\ DOMAIN updates.Updated \ {"zone_id", "provider_region"} =
              {role \in DOMAIN Desired \cap DOMAIN Current : ~Unchanged(role)}
        /\ \A role \in DOMAIN updates.Updated \ {"zone_id", "provider_region"} :
              /\ DOMAIN updates.Updated[role] =
                    {k \in {"hostname", "port"} : Desired[role][k] # Current[role][k]}
              /\ DOMAIN updates.Updated[role] # {}
              /\ \A k \in DOMAIN updates.Updated[role] :
                    updates.Updated[role][k] = Desired[role][k]

\* a role updated in its port alone, beside an added and a removed role
C3_Witness ==
    /\ AfterCompare
    /\ updates # EmptyDict
    /\ "default" \in DOMAIN updates.Updated
    /\ updates.Updated["default"] = [port |-> Some(443)]
    /\ DOMAIN updates.Added = {"hawkular"}
    /\ DOMAIN updates.Removed = {"prometheus_alerts"}

\* C4 (as claimed): once the edit write for the desired state is applied,
\* required_updates for the same desired state against the provider's new
\* record is the empty diff.
C4_RoundTrip ==
    (operation = "update" /\ changed) =>
        required_updates(remote, endpoints, zone_id, provider_region) = EmptyDict

\* C4, for every desired region but the empty string: the round trip holds
C4_RoundTripNonEmptyRegion ==
    provider_region # Some("") => C4_RoundTrip

-----------------------------------------------------------------------------
(* Properties of verify_authenticaion_validation *)

Fetches == Cardinality(PollFetches)

\* the last poll fetch answered: new_validation_details is its answer
Fetched == Fetches > 0 /\ pc # "fatal"

UnderTest == Range(authtypes_to_verify)

\* the timestamps of authtype t in a fetched dict, None for what is absent
TimesIn(fetched, t) ==
    IF t \in DOMAIN fetched
    THEN <<Get(fetched[t], "last_valid_on"), Get(fetched[t], "last_invalid_on")>>
    ELSE <<None, None>>

Settled(t) == TimesIn(new_validation_details, t) # TimesIn(old_validation_details, t)
AllSettled == \A t \in UnderTest : Settled(t)

HasRecord(t) == t \in DOMAIN new_validation_details
StatusOf(t) == IF HasRecord(t) THEN Get(new_validation_details[t], "status") ELSE None
AllValid == \A t \in UnderTest : HasRecord(t) /\ StatusOf(t) = Some("Valid")
SomeFailed == \E t \in UnderTest : StatusOf(t) \notin {Some("Valid"), None}

\* the (status, status_details) map of the last answer
DetailsMap ==
    [t \in UnderTest |->
        <<IF "status" \in DOMAIN new_validation_details[t]
          THEN new_validation_details[t].status ELSE Some("Validation in progress"),
          IF "status_details" \in DOMAIN new_validation_details[t]
          THEN new_validation_details[t].status_details ELSE Some("")>>]

\* every authtype under test has a record that holds a status
WellFormed ==
    \A t \in UnderTest : HasRecord(t) /\ "status" \in DOMAIN new_validation_details[t]

ReturnedSuccess ==
    /\ pc = "done"
    /\ result.kind = "exit_json"
    /\ result.msg.text = "Successful"
    /\ result.msg.validation = "All Valid"

ReturnedFailure ==
    /\ pc = "done"
    /\ result.kind = "exit_json"
    /\ result.msg.text = "Failed to validate provider"
    /\ result.msg.validation = DetailsMap

\* C5 (as claimed): a fetch before the 10th that answers the prior timestamps
\* for some authtype under test is followed by another fetch, and the fetch
\* that answers changed timestamps and 'Valid' for every authtype under test
\* is the last one and ends in (True, 'All Valid').
C5_SuccessAfterRetries ==
    Fetched =>
        /\ (~AllSettled /\ Fetches < 10) => pc = "poll"
        /\ (AllSettled /\ AllValid) => (ReturnedSuccess /\ i = Fetches - 1)

\* C5 on the answers that hold a record for every authtype under test
C5_SuccessAfterRetriesWithRecords ==
    (\A t \in UnderTest : HasRecord(t)) => C5_SuccessAfterRetries

\* C6 (as claimed): while no fetch answers changed timestamps for every
\* authtype under test the poller fetches again, 10 times in all, and then
\* returns failure with the (status, status_details) map of the 10th answer.
C6_Exhaustion ==
    (Fetched /\ ~AllSettled) =>
        /\ Fetches < 10 => pc = "poll"
        /\ Fetches = 10 => ReturnedFailure

\* C6 on the answers that hold a record for every authtype under test
C6_ExhaustionWithRecords ==
    (\A t \in UnderTest : HasRecord(t)) => C6_Exhaustion

\* C7: the poller never returns before its 10th fetch on an answer in which
\* some authtype under test still has the prior snapshot's timestamps.
C7_GatedOnAllSettled ==
    (Fetched /\ pc = "done" /\ Fetches < 10) => AllSettled

\* polling goes on after an answer with one authtype 'Invalid' and settled
\* and another one still at its prior timestamps
C7_Witness ==
    /\ Fetched
    /\ pc = "poll"
    /\ authtypes_to_verify = <<"bearer", "hawkular">>
    /\ Settled("bearer")
    /\ StatusOf("bearer") = Some("Invalid")
    /\ HasRecord("hawkular")
    /\ ~Settled("hawkular")

\* C8 (as claimed): the fetch that answers changed timestamps for every
\* authtype under test and a status that is neither 'Valid' nor null for one
\* of them ends the poller at once, with no further fetch or delay, in
\* (False, details) with the (status, status_details) of every authtype.
C8_ExplicitFailure ==
    (Fetched /\ AllSettled /\ SomeFailed) =>
        /\ ReturnedFailure
        /\ slept = 5 * (Fetches - 1)

\* C8 on the answers in which every authtype under test has a status
C8_ExplicitFailureWellFormed ==
    WellFormed => C8_ExplicitFailure

\* at most 10 fetches and 10 sleeps of 5 time units: the passes before the
\* one of index i have slept, and that pass has slept or has ended the
\* poller; while the poller has not ended fewer than 10 fetches are behind
\* it, so the next pass can run
PollerBound ==
    /\ Fetches <= 10
    /\ i < 10
    /\ slept \in {5 * i, 5 * (i + 1)}
    /\ slept <= 50
    /\ slept = 5 * (i + 1) => (pc = "done" /\ Fetches = 10)
    /\ pc = "poll" => (Fetches < 10 /\ i = Fetches /\ slept = 5 * i)

\* C9: the poller fetches at most 10 times and sleeps at most 10 times 5
\* time units, 50 in all, on every sequence of answers; each pass of its
\* loop costs one of the 10 fetches, so it ends, and an 11th fetch never
\* happens.
C9_PollerTerminatesInBound ==
    /\ []PollerBound
    /\ [][pc = "poll" => /\ Fetches' = Fetches + 1
                         /\ pc' = "poll" => slept' = slept + 5]_vars

\* the 10th fetch was followed by the 10th sleep
C9_Witness ==
    /\ Fetches = 10
    /\ slept = 50
    /\ pc = "done"

-----------------------------------------------------------------------------
(* Properties of add_or_update_provider *)

\* the poller returned failure: an explicit failure, or the 10th pass slept
PollerReportedFailure ==
    /\ Fetched
    /\ pc # "crashed"
    /\ \/ AllSettled /\ SomeFailed
       \/ Fetches = 10 /\ slept = 50

\* C10: after the create or edit write succeeded, a failure reported by the
\* poller ends the invocation with a normal result that carries the provider
\* id, changed = true, the diff (None after a create) and the message 'Failed
\* to validate provider ... Authentication: <details>', never with fail_json.
C10_ValidationFailureNotFatal ==
    (changed /\ PollerReportedFailure) =>
        /\ pc = "done"
        /\ result.kind = "exit_json"
        /\ result.provider_id = provider_id
        /\ Truthy(result.provider_id)
        /\ result.changed = TRUE
        /\ result.updates = updates
        /\ result.msg = [text |-> "Failed to validate provider", operation |-> operation,
                         provider |-> provider_name, validation |-> DetailsMap]

\* an update whose validation failed at once
C10_Witness ==
    /\ changed
    /\ PollerReportedFailure
    /\ operation = "update"
    /\ Fetches = 1
    /\ updates # EmptyDict
    /\ result.kind = "exit_json"

\* the desired endpoints whose role is in the given set, by position
EndpointsOfRoles(roles) == {n \in DOMAIN endpoints : endpoints[n].endpoint.role \in roles}

AuthtypesOfRoles(roles) ==
    {endpoints[n].authentication.authtype : n \in EndpointsOfRoles(roles)}

\* the write succeeded and the poller was called
PollerCalled == changed /\ operation \in {"update", "addition"}

\* C11: after an edit the authtypes passed to the poller are exactly those of
\* the desired endpoints whose role is in Added or Updated of the diff, one
\* for each such endpoint, and none of an endpoint whose role is in neither;
\* after a create they are the authtypes of all desired endpoints.
C11_ValidationScope ==
    /\ (PollerCalled /\ operation = "update") =>
          /\ UnderTest = AuthtypesOfRoles(DOMAIN updates.Added \cup DOMAIN updates.Updated)
          /\ Len(authtypes_to_verify) =
                Cardinality(EndpointsOfRoles(DOMAIN updates.Added \cup DOMAIN updates.Updated))
          /\ \A n \in DOMAIN endpoints :
                endpoints[n].endpoint.role \notin DOMAIN updates.Added \cup DOMAIN updates.Updated
                    => endpoints[n].authentication.authtype \notin UnderTest
          /\ \A role \in DOMAIN updates.Removed : AuthtypesOfRoles({role}) = {}
    /\ (PollerCalled /\ operation = "addition") =>
          /\ UnderTest = {endpoints[n].authentication.authtype : n \in DOMAIN endpoints}
          /\ Len(authtypes_to_verify) = Len(endpoints)

\* an edit that updates the default role, leaves hawkular as it is and
\* removes a third role: bearer alone is validated again
C11_Witness ==
    /\ PollerCalled
    /\ operation = "update"
    /\ Len(endpoints) = 2
    /\ "default" \in DOMAIN updates.Updated
    /\ "hawkular" \notin DOMAIN updates.Updated \cup DOMAIN updates.Added
    /\ "prometheus_alerts" \in DOMAIN updates.Removed
    /\ authtypes_to_verify = <<"bearer">>

-----------------------------------------------------------------------------
(* Failures *)

LastCall == calls[Len(calls)]

\* a call failed: fail_json ended the invocation
Fatal == pc = "fatal"

\* what fail_json reports: a message, neither changed nor provider_id
FatalResult ==
    /\ result.kind = "fail_json"
    /\ DOMAIN result = {"kind", "msg"}

\* C12: when the endpoint fetch, the snapshot fetch, a poll fetch, the create
\* write or the edit write fails, the invocation is in the fatal error state
\* with the failed call as its last call and a result that reports neither
\* changed nor provider_id; from then on no call is issued and nothing
\* changes; a failed endpoint or snapshot fetch leaves no write behind it.
C12_FailureIsTerminal ==
    /\ [](Fatal =>
            /\ calls # <<>>
            /\ FatalResult
            /\ LastCall.what \in {"endpoints", "snapshot"} => Posts = {}
            /\ LastCall.what = "poll" => Cardinality(Posts) = 1 /\ Fetches = i + 1)
    /\ [][Fatal => (pc' = "fatal" /\ calls' = calls /\ result' = result)]_vars
    /\ [][(calls' # calls /\ pc' = "fatal") =>
              (Len(calls') = Len(calls) + 1 /\ result = None /\ pc # "fatal")]_vars

\* the third poll fetch after an edit failed
C12_Witness ==
    /\ Fatal
    /\ operation = "update"
    /\ LastCall.what = "poll"
    /\ Fetches = 3
    /\ calls[2].what = "snapshot"
    /\ calls[3].what = "edit"

-----------------------------------------------------------------------------
(* Properties of delete_provider *)

NameExists == \E n \in DOMAIN providers : providers[n].name = provider_name

DeleteEnded == state = "absent" /\ Terminated

\* the delete write was issued and the module did not read success = true
DeleteWriteFailed ==
    /\ DeleteEnded
    /\ Posts # {}
    /\ ~changed

\* C13 (as claimed): when delete_provider finds the provider and the delete
\* write fails, by an exception or by an answer that says the delete did not
\* succeed, the invocation ends in the fatal error state with fail_json and
\* not with a normal result.
C13_DeleteFailureIsFatal ==
    (NameExists /\ DeleteWriteFailed) => (Fatal /\ FatalResult)

\* C14: when no provider of the collection has the given name,
\* delete_provider ends with task_id = null, changed = false and the message
\* "Provider <name> doesn't exist", and it issues no POST.
C14_DeleteAbsent ==
    (DeleteEnded /\ ~NameExists) =>
        /\ pc = "done"
        /\ result.kind = "exit_json"
        /\ result.task_id = None
        /\ result.changed = FALSE
        /\ result.msg = [text |-> "doesn't exist", provider |-> provider_name]
        /\ Posts = {}
        /\ calls = <<>>

\* the delete of a provider that is not in the collection has ended
C14_Witness ==
    /\ DeleteEnded
    /\ ~NameExists
    /\ providers # <<>>
    /\ result.kind = "exit_json"
    /\ provider_id = None

-----------------------------------------------------------------------------
(* Properties of the branches of add_or_update_provider *)

\* the provider this invocation created is the last member of the collection
CreatedHere == changed /\ operation = "addition"

\* a member of the given name was in the collection when it was looked up
ExistedBefore ==
    \E n \in DOMAIN providers :
        /\ providers[n].name = provider_name
        /\ ~(CreatedHere /\ n = Len(providers))

\* the id of the first member of the given name
LocatedId ==
    providers[CHOOSE n \in DOMAIN providers :
                 /\ providers[n].name = provider_name
                 /\ \A m \in 1..(n - 1) : providers[m].name # provider_name].id

\* C15: an add_or_update_provider invocation issues at most one POST.  A
\* create write, with the name, the type, the zone id, the endpoints and the
\* region, is issued exactly when the name is absent from the collection; an
\* edit write on the located id, with the whole desired endpoint list, the
\* zone id and the region, exactly when the provider exists and the diff is
\* not empty; no write when the diff is empty.
C15_SingleWriteByBranch ==
    state = "present" =>
        /\ Cardinality(Posts) <= 1
        /\ \A n \in Posts :
              \/ /\ calls[n].what = "create"
                 /\ n = 1
                 /\ ~ExistedBefore
                 /\ calls[n].payload =
                       [name |-> provider_name, type |-> PROVIDER_TYPES[provider_type],
                        zone |-> [id |-> zone_id], connection_configurations |-> endpoints,
                        provider_region |-> provider_region]
              \/ /\ calls[n].what = "edit"
                 /\ n = 3
                 /\ ExistedBefore
                 /\ updates \notin {EmptyDict, None}
                 /\ calls[n].id = Some(LocatedId)
                 /\ calls[n].payload =
                       [zone |-> [id |-> zone_id], connection_configurations |-> endpoints,
                        provider_region |-> provider_region]
        \* the name is absent: the first call is the create write
        /\ (pc # "start" /\ ~ExistedBefore) =>
              (pc = "create" \/ (calls # <<>> /\ calls[1].what = "create"))
        \* the provider exists and the diff is not empty: the edit write is
        \* the call after the snapshot
        /\ (ExistedBefore /\ Len(calls) >= 1 /\ pc # "fatal" /\ updates # EmptyDict) =>
              (pc = "snapshot" \/ (Len(calls) >= 2 /\ pc = "edit")
                 \/ (Len(calls) >= 3 /\ calls[3].what = "edit"))
        \* the diff is empty: the invocation has ended without a write
        /\ (ExistedBefore /\ Len(calls) >= 1 /\ pc # "fatal" /\ updates = EmptyDict) =>
              (pc = "done" /\ Posts = {} /\ Len(calls) = 1)

\* an edit of a provider's endpoints, zone and region has ended: one POST,
\* after the two fetches
C15_Witness ==
    /\ state = "present"
    /\ pc = "done"
    /\ ExistedBefore
    /\ Posts = {3}
    /\ calls[3].what = "edit"
    /\ calls[3].payload.provider_region = Some("us-east-1")
    /\ Len(endpoints) = 2
    /\ Fetches = 1

-----------------------------------------------------------------------------
(* Properties of the scalar fields of the diff *)

\* the remote region, an absent or empty value read as null
RemoteRegionRead ==
    IF "provider_region" \in DOMAIN remote /\ remote.provider_region # Some("")
    THEN remote.provider_region ELSE None

ZoneDiffers == remote.zone_id # zone_id
RegionDiffers == RemoteRegionRead # provider_region

\* C16: when the remote zone_id differs from the resolved zone id, or the
\* remote region (an empty value read as null) differs from the desired
\* region, the diff is not empty and Updated holds 'zone_id' and
\* 'provider_region', each exactly when it differs, with the desired value;
\* when the role mappings are equal, Added and Removed are empty and Updated
\* holds no role.
C16_ScalarChanges ==
    (AfterCompare /\ (ZoneDiffers \/ RegionDiffers)) =>
        /\ updates # EmptyDict
        /\ pc = "snapshot"
        /\ DOMAIN updates = {"Updated", "Added", "Removed"}
        /\ ZoneDiffers <=> "zone_id" \in DOMAIN updates.Updated
        /\ ZoneDiffers => updates.Updated["zone_id"] = zone_id
        /\ RegionDiffers <=> "provider_region" \in DOMAIN updates.Updated
        /\ RegionDiffers => updates.Updated["provider_region"] = provider_region
        /\ Desired = Current =>
              /\ updates.Added = EmptyDict
              /\ updates.Removed = EmptyDict
              /\ DOMAIN updates.Updated \subseteq {"zone_id", "provider_region"}

\* a diff of the zone and the region alone: the zone asked for is unknown
\* and the remote region is the empty string
C16_Witness ==
    /\ AfterCompare
    /\ Desired = Current
    /\ Desired # EmptyDict
    /\ Get(remote, "provider_region") = Some("")
    /\ updates # EmptyDict
    /\ updates.Updated = [zone_id |-> None, provider_region |-> Some("us-east-1")]

-----------------------------------------------------------------------------
(* Properties of the custom attribute diff *)

SameName(d) == \E m \in DOMAIN existing_cas : existing_cas[m].name = d.name

SameNameAndSection(d) ==
    \E m \in DOMAIN existing_cas :
        existing_cas[m].name = d.name /\ existing_cas[m].section = d.section

\* the POSTs of an action that carry an attribute of d's (name, section)
PostsOf(action, d) ==
    {n \in DOMAIN ca_calls :
        /\ ca_calls[n].action = action
        /\ \E r \in Range(ca_calls[n].resources) :
              r.name = d.name /\ r.section = d.section}

\* C17: a desired attribute whose name is the name of an existing attribute
\* and whose (name, section) no existing attribute has is posted as an
\* addition and never as an update, so that the server's answer for it is
\* reported under Added; Updated is empty when it is the only desired
\* attribute, and the existing attributes of that name stay as they are
\* unless their own (name, section) is asked for as well.
C17_CompositeKey ==
    ca_result # None =>
        \A n \in DOMAIN custom_attributes :
            LET d == custom_attributes[n] IN
            (SameName(d) /\ ~SameNameAndSection(d)) =>
                /\ \E c \in PostsOf("add", d) :
                      /\ d \in Range(ca_calls[c].resources)
                      /\ Len(ca_result.updates.Added) = Len(ca_calls[c].resources)
                /\ PostsOf("edit", d) = {}
                /\ Len(custom_attributes) = 1 =>
                      /\ ca_result.updates.Updated = <<>>
                      /\ Len(ca_calls) = 1
                /\ ca_result.changed
                /\ \A m \in DOMAIN existing_cas :
                      (/\ existing_cas[m].name = d.name
                       /\ \A k \in DOMAIN custom_attributes :
                             custom_attributes[k].section # existing_cas[m].section
                             \/ custom_attributes[k].name # existing_cas[m].name)
                      => existing_cas[m] \in Range(server_cas)
                /\ d \in Range(server_cas)

\* ca1 of section 'metadata' exists and ca1 of section 'section' is asked
\* for; the server answers the POST with its record of ca2
C17_Witness ==
    /\ existing_cas = <<[name |-> "ca1", section |-> "metadata", value |-> "value 1"]>>
    /\ custom_attributes = <<[name |-> "ca1", section |-> "section", value |-> "new value"]>>
    /\ ca_result # None
    /\ ca_calls = <<[action |-> "add", resources |-> custom_attributes]>>
    /\ ca_result.updates.Added =
           <<[name |-> "ca2", section |-> "section", value |-> "new value"]>>
    /\ ca_result.updates.Updated = <<>>
    /\ ca_result.changed
    /\ Len(server_cas) = 2

-----------------------------------------------------------------------------
(* Properties of the poller on every shape of answer *)

\* C18 (as claimed): on every sequence of fetched answers, those that lack a
\* record or a status for an authtype under test too, the poller returns a
\* (success, details) pair, a failure at the latest after the 10th fetch, and
\* does not abort.
C18_PollerTotal ==
    /\ pc # "crashed"
    /\ (Fetched /\ Fetches = 10) => (ReturnedSuccess \/ ReturnedFailure)

\* C18 on the answers in which every authtype under test has a status
C18_PollerTotalWellFormed ==
    WellFormed => C18_PollerTotal

\* the status of an authtype under test is there and null
NullStatus(t) ==
    /\ HasRecord(t)
    /\ "status" \in DOMAIN new_validation_details[t]
    /\ new_validation_details[t].status = None

\* C19 (as claimed): the poller returns success only on an answer with
\* changed timestamps and the status 'Valid' for every authtype under test;
\* on an answer with changed timestamps for all of them, no explicit failure
\* and a null status it neither succeeds nor fails but sleeps and polls
\* again, and it returns failure when that is the 10th answer.
C19_SuccessCondition ==
    /\ ReturnedSuccess => (Fetched /\ AllSettled /\ AllValid)
    /\ (Fetched /\ AllSettled /\ ~SomeFailed /\ \E t \in UnderTest : NullStatus(t)) =>
          /\ slept = 5 * Fetches
          /\ IF Fetches < 10 THEN pc = "poll" ELSE ReturnedFailure

\* C19 on the answers in which every authtype under test has a status
C19_SuccessConditionWellFormed ==
    WellFormed => C19_SuccessCondition

-----------------------------------------------------------------------------
(* Properties of the entity lookup *)

\* found is the id of the first member of the name, None when there is none
FirstOfName(found, collection, name) ==
    /\ found = None <=> \A n \in DOMAIN collection : collection[n].name # name
    /\ found # None =>
          \E n \in DOMAIN collection :
              /\ collection[n].name = name
              /\ found = Some(collection[n].id)
              /\ \A m \in 1..(n - 1) : collection[m].name # name

\* the collections are as they were when the lookups ran
JustLocated ==
    \/ state = "present" /\ pc \in {"compare", "create"}
    \/ state = "absent" /\ Terminated

ZoneAskedFor == IF zone = None THEN "default" ELSE zone[1]

\* C20: find_provider_by_name and find_zone_by_name return the id of the
\* first member of the collection, in its order, whose name is the name asked
\* for, and None when no member has that name; never the id of a member of
\* another name.
C20_EntityLookup ==
    JustLocated =>
        /\ FirstOfName(provider_id, providers, provider_name)
        /\ state = "present" => FirstOfName(zone_id, zones, ZoneAskedFor)
        /\ provider_id # None =>
              \A n \in DOMAIN providers :
                  providers[n].name # provider_name => provider_id # Some(providers[n].id)

\* the name is there twice: the lookup returned the id of the first member,
\* which is not the lowest id
C20_Witness ==
    /\ state = "present"
    /\ pc = "compare"
    /\ providers = <<[id |-> 3, name |-> "p1"], [id |-> 2, name |-> "p1"]>>
    /\ provider_id = Some(3)
    /\ zone = Some("z2")
    /\ zones = <<[id |-> 3, name |-> "z2"], [id |-> 2, name |-> "z2"]>>
    /\ zone_id = Some(3)

-----------------------------------------------------------------------------
(* Properties of the changed flag *)

\* the writes of this invocation that completed: a create or an edit that
\* returned without an error, a delete the server answered with success
SuccessfulWrites ==
    IF state = "present"
    THEN {n \in Posts : n < Len(calls) \/ pc # "fatal"}
    ELSE {n \in Posts : NameExists /\ remote = None}

\* C21: in every result that add_or_update_provider or delete_provider
\* returns, changed is true exactly when one write of the invocation
\* completed: the create or edit returned without an error, or the delete
\* was answered with success; it is false in the 'already exists' and the
\* "doesn't exist" result.
C21_ChangedMatchesWrites ==
    pc = "done" =>
        /\ result.kind = "exit_json"
        /\ Cardinality(SuccessfulWrites) <= 1
        /\ result.changed <=> Cardinality(SuccessfulWrites) = 1
        /\ result.changed = changed
        /\ result.msg.text \in {"already exists", "doesn't exist"} =>
              (~result.changed /\ Posts = {})

\* a delete the server refused: a write was issued, none completed
C21_Witness ==
    /\ pc = "done"
    /\ state = "absent"
    /\ Posts = {1}
    /\ SuccessfulWrites = {}
    /\ result.changed = FALSE
    /\ "api_error" \in DOMAIN result

-----------------------------------------------------------------------------
(* Properties of the order of the calls *)

CallsOf(what) == {n \in DOMAIN calls : calls[n].what = what}

\* C22: on the update path the snapshot is fetched before the edit write is
\* issued, every poll fetch comes after the write has returned and no write
\* comes after a poll fetch; on the create path there is no snapshot fetch,
\* the prior snapshot is empty, and an authtype counts as validated as soon
\* as one of its two timestamps is not null.
C22_SnapshotWritePollOrder ==
    /\ \A e \in CallsOf("edit") :
          /\ CallsOf("snapshot") = {e - 1}
          /\ CallsOf("create") = {}
    /\ \A c \in CallsOf("create") : CallsOf("snapshot") = {}
    /\ \A p \in PollFetches :
          /\ Posts # {}
          /\ \A w \in Posts : w < p
    /\ (pc \in {"edit", "poll"} /\ operation = "update") => CallsOf("snapshot") # {}
    /\ CreatedHere =>
          /\ old_validation_details = EmptyDict
          /\ Fetched =>
                /\ \A t \in UnderTest :
                      validated(GetDefault(old_validation_details, t, EmptyDict),
                                GetDefault(new_validation_details, t, EmptyDict))
                          <=> TimesIn(new_validation_details, t) # <<None, None>>
                /\ (/\ WellFormed
                    /\ \A t \in UnderTest : TimesIn(new_validation_details, t) # <<None, None>>)
                   => /\ AllValid => ReturnedSuccess
                      /\ SomeFailed => ReturnedFailure

\* an edit whose validation took two fetches: the endpoint fetch, the
\* snapshot, the write and then the polls
C22_Witness ==
    /\ pc = "done"
    /\ operation = "update"
    /\ Len(calls) = 5
    /\ CallsOf("endpoints") = {1}
    /\ CallsOf("snapshot") = {2}
    /\ CallsOf("edit") = {3}
    /\ PollFetches = {4, 5}
    /\ ReturnedSuccess

-----------------------------------------------------------------------------
(* Properties of an update that changes no desired role *)

\* the edit write returned and the diff has no added and no updated role
NoRoleChanged ==
    /\ operation = "update"
    /\ changed
    /\ DOMAIN updates.Added = {}
    /\ DOMAIN updates.Updated \subseteq {"zone_id", "provider_region"}

\* C23: when an update changes no desired role, because only the zone or the
\* region differs or roles are only removed, no authtype is under test, and
\* the poller returns (True, 'All Valid') after one fetch and no sleep, so
\* that the result reports a successful update.
C23_EmptyValidationSet ==
    NoRoleChanged =>
        /\ authtypes_to_verify = <<>>
        /\ Fetched =>
              /\ ReturnedSuccess
              /\ Fetches = 1
              /\ slept = 0
              /\ result.msg.operation = "update"
              /\ result.changed
              /\ result.updates = updates

\* an update that only removes a role has ended
C23_Witness ==
    /\ NoRoleChanged
    /\ Fetched
    /\ DOMAIN updates.Removed = {"prometheus_alerts"}
    /\ updates.Updated = EmptyDict
    /\ endpoints # <<>>
    /\ pc = "done"

-----------------------------------------------------------------------------
(* Properties of the credentials *)

\* other authentication parts: another authtype, token, userid, password
OtherAuthentications ==
    {[authtype |-> "bearer", auth_key |-> Some("other token")],
     [authtype |-> "hawkular", auth_key |-> None],
     [authtype |-> "default", userid |-> Some("other key"), password |-> Some("other secret")]}

\* the desired states that differ from eps in the authentication parts alone
CredentialVariants(eps) ==
    {[n \in DOMAIN eps |-> [endpoint |-> eps[n].endpoint, authentication |-> auth[n]]] :
        auth \in [DOMAIN eps -> OtherAuthentications]}

\* C24 (as claimed): for an existing provider every desired state that
\* differs from the given one in the authentication parts alone has the same
\* required_updates result; a desired state whose roles, hostnames, ports,
\* zone and region equal the remote ones, whatever its credentials, has the
\* empty diff, no write and changed = false.
C24_CredentialsOutsideDiff ==
    (AfterCompare /\ endpoints # <<>>) =>
        /\ \A variant \in CredentialVariants(endpoints) :
              required_updates(remote, variant, zone_id, provider_region) = updates
        /\ (/\ Desired = Current
            /\ remote.zone_id = zone_id
            /\ Get(remote, "provider_region") = provider_region)
           => \A variant \in CredentialVariants(endpoints) \cup {endpoints} :
                 /\ required_updates(remote, variant, zone_id, provider_region) = EmptyDict
                 /\ pc = "done"
                 /\ result.changed = FALSE
                 /\ Posts = {}

\* C24, for every desired region but the empty string
C24_CredentialsOutsideDiffNonEmptyRegion ==
    provider_region # Some("") => C24_CredentialsOutsideDiff

====
